---- MODULE Spec2Model ----
(***************************************************************************)
(* Model of zephyr737/classification:                                      *)
(*   trainer/engine.py        train_one_epoch, evaluate                    *)
(*   tools/image_transform.py img_trans, gen_txt_dc                        *)
(* Each function is a sequential program; its position is pc.  Python's    *)
(* 0-based batch index j addresses data_loader[j + 1] here.                *)
(***************************************************************************)
EXTENDS Integers, Sequences, FiniteSets

VARIABLES
    pc,              \* position of the running function
    data_loader,     \* the batches the data source yields, in order
    epoch,           \* epoch argument
    model_ema,       \* TRUE iff model_ema is not None
    mixup_fn,        \* TRUE iff mixup_fn is not None
    summary_writer,  \* TRUE iff summary_writer is not None
    j,               \* batch counter of the loop
    loss_value,      \* loss.item() of the current batch
    lr,              \* optimizer.param_groups[0]["lr"]
    meters,          \* metric_logger.meters: name -> [count, total]
    scalars,         \* what summary_writer.add_scalar received, in order
    log,             \* calls made on the collaborators, in order
    exit_status,     \* status passed to sys.exit, NoExit while running
    return_dict,     \* the returned mapping name -> global average
    topk,            \* evaluate's topk argument as passed
    topk_norm,       \* topk after lines 91-95
    topk_enable,     \* evaluate's topk_enable
    accs,            \* evaluate's accs, the list accuracy() returned
    src_is_file,     \* img_trans: os.path.isfile(src)
    src_name,        \* img_trans: os.path.basename(src) when src is a file
    imgs_src,        \* img_trans: os.listdir(src), in the order it came
    decodes,         \* img_trans: how each source file decodes
    dst_exists,      \* img_trans: os.path.exists(dst)
    dst_files,       \* img_trans: names of the files in dst
    run,             \* img_trans: which call over the same src and dst this is
    handled,         \* img_trans: per call, entries decoded and resized
    repaired,        \* img_trans: entries decoded only after the marker repair
    written,         \* img_trans: per call, names saved into dst
    img_name_list,   \* gen_txt_dc: os.listdir(root), in the order it came
    pos,             \* number of directory entries the loop has visited
    txt_content,     \* gen_txt_dc: lines collected so far
    label_file,      \* gen_txt_dc: the file at path_label
    label_file0      \* gen_txt_dc: that file before the call

engineVars == <<data_loader, epoch, model_ema, mixup_fn, summary_writer, j,
                loss_value, lr, meters, scalars, log, exit_status, return_dict,
                topk, topk_norm, topk_enable, accs>>

imgVars == <<src_is_file, src_name, imgs_src, decodes, dst_exists, dst_files,
             run, handled, repaired, written>>

labelVars == <<img_name_list, txt_content, label_file, label_file0>>

toolVars == <<imgVars, labelVars, pos>>

vars == <<pc, engineVars, toolVars>>

----------------------------------------------------------------------------
(* Bounds of the explored inputs. *)
MaxBatches == 2
MaxLoss == 1
MaxSize == 2
MaxEpoch == 1
MaxTupleLen == 2
MaxEntries == 2
MaxNames == 3
MaxRuns == 2

----------------------------------------------------------------------------
(* Python floats: finite values (integers here), NaN and infinity. *)
Finite(n) == [kind |-> "finite", val |-> n]
NaN == [kind |-> "nan", val |-> 0]
Inf == [kind |-> "inf", val |-> 0]

IsFiniteNanOnly(x) == x.kind # "nan"
\* math.isfinite
IsFinite(x) == x.kind = "finite"

FiniteLosses == {Finite(n) : n \in 0..MaxLoss}
LossValues == FiniteLosses \cup {NaN, Inf}

\* A batch: the loss the model yields on it and its number of samples (the
\* smallest and the largest size are explored).
Batches(losses) == [loss : losses, size : {1, MaxSize}]

SeqsUpTo(S, n) == UNION {[1..k -> S] : k \in 0..n}

NoExit == -1
NoValue == [kind |-> "none", val |-> 0]

----------------------------------------------------------------------------
(* tools.utils.MetricLogger / SmoothedValue: a meter is a running          *)
(* (count, total) pair; meters is created on first use (a defaultdict).    *)
EmptyMeter == [count |-> 0, total |-> 0]

MeterOf(ms, k) == IF k \in DOMAIN ms THEN ms[k] ELSE EmptyMeter

\* SmoothedValue.update(value, n): count += n; total += value * n
SmoothedUpdate(m, value, n) ==
    [count |-> m.count + n, total |-> m.total + value * n]

\* metric_logger.meters[k].update(value, n=n)
MeterUpdateN(ms, k, value, n) ==
    [x \in DOMAIN ms \cup {k} |->
        IF x = k THEN SmoothedUpdate(MeterOf(ms, k), value, n) ELSE ms[x]]

\* metric_logger.update(k=value): the meter's default weight n = 1
MetricLoggerUpdate(ms, k, value) == MeterUpdateN(ms, k, value, 1)

\* metric_logger.add_meter(k, SmoothedValue(...))
AddMeter(ms, k) == [x \in DOMAIN ms \cup {k} |-> IF x = k THEN EmptyMeter ELSE ms[x]]

\* meter.global_avg = total / count, kept as the fraction <<total, count>>
GlobalAvg(m) == <<m.total, m.count>>

NoMeters == [x \in {} |-> EmptyMeter]

\* the state of the functions that are not running
ToolsIdle ==
    /\ src_is_file = FALSE /\ src_name = <<>> /\ imgs_src = <<>>
    /\ decodes = <<>> /\ dst_exists = FALSE /\ dst_files = {}
    /\ run = 0 /\ handled = <<>> /\ repaired = {} /\ written = <<>>
    /\ img_name_list = <<>> /\ pos = 0 /\ txt_content = <<>>
    /\ label_file = <<>> /\ label_file0 = <<>>

EngineIdle ==
    /\ data_loader = <<>> /\ epoch = 0 /\ model_ema = FALSE /\ mixup_fn = FALSE
    /\ summary_writer = FALSE /\ j = 0 /\ loss_value = NoValue /\ lr = 0
    /\ meters = NoMeters /\ scalars = <<>> /\ log = <<>> /\ exit_status = NoExit
    /\ return_dict = NoMeters /\ topk = NoValue /\ topk_norm = NoValue
    /\ topk_enable = FALSE /\ accs = <<>>

----------------------------------------------------------------------------
(* train_one_epoch *)

Event(op, b) == [op |-> op, j |-> b, arg |-> 0]
EventArg(op, b, a) == [op |-> op, j |-> b, arg |-> a]

\* lr_scheduler.step(epoch): the schedule's rate for an epoch
LrSchedule(e) == MaxEpoch + 1 - e

CurBatch == data_loader[j + 1]

\* the loop body's statement order, lines 54-74, with the EMA update moved
\* ahead of the optimizer step
StepAfterEmaEarly(p) ==
    CASE p = "zero_grad" -> "sched"
      [] p = "sched"     -> "backward"
      [] p = "backward"  -> "ema"
      [] p = "ema"       -> "opt_step"
      [] p = "opt_step"  -> "sync"
      [] p = "sync"      -> "sink"
      [] p = "sink"      -> "meter"
      [] OTHER           -> "fetch"

\* the loop body's statement order, lines 54-74
StepAfter(p) ==
    CASE p = "zero_grad" -> "sched"
      [] p = "sched"     -> "backward"
      [] p = "backward"  -> "opt_step"
      [] p = "opt_step"  -> "sync"
      [] p = "sync"      -> "ema"
      [] p = "ema"       -> "sink"
      [] p = "sink"      -> "meter"
      [] OTHER           -> "fetch"

\* line 71 as if it passed the batch size as the weight
LossUpdateWeighted(ms, v, b) == MeterUpdateN(ms, "loss", v.val, b.size)
\* line 71: metric_logger.update(loss=loss_value)
LossUpdate(ms, v, b) == MetricLoggerUpdate(ms, "loss", v.val)

TrainInit ==
    /\ pc = "fetch"
    /\ data_loader \in SeqsUpTo(Batches(LossValues), MaxBatches)
    /\ epoch \in {0, MaxEpoch}
    /\ model_ema \in BOOLEAN
    /\ mixup_fn \in BOOLEAN
    /\ summary_writer \in BOOLEAN
    /\ j = 0
    /\ loss_value = NoValue
    /\ lr = 0
    /\ meters = AddMeter(NoMeters, "lr")
    /\ scalars = <<>>
    /\ log = <<>>
    /\ exit_status = NoExit
    /\ return_dict = NoMeters
    /\ topk = NoValue /\ topk_norm = NoValue /\ topk_enable = FALSE /\ accs = <<>>
    /\ ToolsIdle

inputs == <<data_loader, epoch, model_ema, mixup_fn, summary_writer, topk>>

\* line 37-40: the loop takes the next batch and moves it to the device
TrainFetch ==
    /\ pc = "fetch" /\ j < Len(data_loader)
    /\ log' = Append(log, Event("fetch", j))
    /\ pc' = "forward"
    /\ UNCHANGED <<toolVars, inputs, j, loss_value, lr, meters, scalars, exit_status,
                   return_dict, topk_norm, topk_enable, accs>>

\* lines 42-49: optional mixup, forward pass, loss, loss.item()
TrainForward ==
    /\ pc = "forward"
    /\ log' = (IF mixup_fn THEN Append(log, Event("mixup", j)) ELSE log)
                \o <<Event("forward", j)>>
    /\ loss_value' = CurBatch.loss
    /\ pc' = "check"
    /\ UNCHANGED <<toolVars, inputs, j, lr, meters, scalars, exit_status, return_dict,
                   topk_norm, topk_enable, accs>>

\* lines 50-52: a non-finite loss ends the process
TrainCheck ==
    /\ pc = "check"
    /\ IF ~IsFinite(loss_value)
         THEN pc' = "exited" /\ exit_status' = 1
         ELSE pc' = "zero_grad" /\ UNCHANGED exit_status
    /\ UNCHANGED <<toolVars, inputs, j, loss_value, lr, meters, scalars, log, return_dict,
                   topk_norm, topk_enable, accs>>

\* line 54: optimizer.zero_grad()
TrainZeroGrad ==
    /\ pc = "zero_grad"
    /\ log' = Append(log, Event("zero_grad", j))
    /\ pc' = StepAfter("zero_grad")
    /\ UNCHANGED <<toolVars, inputs, j, loss_value, lr, meters, scalars, exit_status,
                   return_dict, topk_norm, topk_enable, accs>>

\* line 55: lr_scheduler.step(epoch)
TrainSched ==
    /\ pc = "sched"
    /\ log' = Append(log, EventArg("sched", j, epoch))
    /\ lr' = LrSchedule(epoch)
    /\ pc' = StepAfter("sched")
    /\ UNCHANGED <<toolVars, inputs, j, loss_value, meters, scalars, exit_status,
                   return_dict, topk_norm, topk_enable, accs>>

\* line 60: loss.backward()
TrainBackward ==
    /\ pc = "backward"
    /\ log' = Append(log, Event("backward", j))
    /\ pc' = StepAfter("backward")
    /\ UNCHANGED <<toolVars, inputs, j, loss_value, lr, meters, scalars, exit_status,
                   return_dict, topk_norm, topk_enable, accs>>

\* line 61: optimizer.step()
TrainOptStep ==
    /\ pc = "opt_step"
    /\ log' = Append(log, Event("opt_step", j))
    /\ pc' = StepAfter("opt_step")
    /\ UNCHANGED <<toolVars, inputs, j, loss_value, lr, meters, scalars, exit_status,
                   return_dict, topk_norm, topk_enable, accs>>

\* line 63: torch.cuda.synchronize()
TrainSync ==
    /\ pc = "sync"
    /\ log' = Append(log, Event("sync", j))
    /\ pc' = StepAfter("sync")
    /\ UNCHANGED <<toolVars, inputs, j, loss_value, lr, meters, scalars, exit_status,
                   return_dict, topk_norm, topk_enable, accs>>

\* lines 64-65: model_ema.update(model) when a tracker is given
TrainEma ==
    /\ pc = "ema"
    /\ log' = IF model_ema THEN Append(log, Event("ema", j)) ELSE log
    /\ pc' = StepAfter("ema")
    /\ UNCHANGED <<toolVars, inputs, j, loss_value, lr, meters, scalars, exit_status,
                   return_dict, topk_norm, topk_enable, accs>>

\* lines 67-69: add_scalar('train/loss', loss_value, j + epoch * len(data_loader))
TrainSink ==
    /\ pc = "sink"
    /\ IF summary_writer
         THEN /\ scalars' = Append(scalars,
                    [tag |-> "train/loss", value |-> loss_value,
                     step |-> j + epoch * Len(data_loader)])
              /\ log' = Append(log,
                    EventArg("sink", j, j + epoch * Len(data_loader)))
         ELSE UNCHANGED <<scalars, log>>
    /\ pc' = StepAfter("sink")
    /\ UNCHANGED <<toolVars, inputs, j, loss_value, lr, meters, exit_status, return_dict,
                   topk_norm, topk_enable, accs>>

\* lines 71-74: the two aggregator updates and j += 1
TrainMeter ==
    /\ pc = "meter"
    /\ meters' = MetricLoggerUpdate(LossUpdate(meters, loss_value, CurBatch), "lr", lr)
    /\ log' = log \o <<Event("meter_loss", j), EventArg("meter_lr", j, lr)>>
    /\ j' = j + 1
    /\ pc' = StepAfter("meter")
    /\ UNCHANGED <<toolVars, inputs, loss_value, lr, scalars, exit_status, return_dict,
                   topk_norm, topk_enable, accs>>

\* lines 76-80: the loop is exhausted; return every meter's global average
TrainReturn ==
    /\ pc = "fetch" /\ j = Len(data_loader)
    /\ return_dict' = [k \in DOMAIN meters |-> GlobalAvg(meters[k])]
    /\ pc' = "done"
    /\ UNCHANGED <<toolVars, inputs, j, loss_value, lr, meters, scalars, log, exit_status,
                   topk_norm, topk_enable, accs>>

TrainNext ==
    \/ TrainFetch \/ TrainForward \/ TrainCheck \/ TrainZeroGrad \/ TrainSched
    \/ TrainBackward \/ TrainOptStep \/ TrainSync \/ TrainEma \/ TrainSink
    \/ TrainMeter \/ TrainReturn

SpecTrain == TrainInit /\ [][TrainNext]_vars

----------------------------------------------------------------------------
(* Properties of train_one_epoch *)

BatchCount == Len(data_loader)

IsPrefix(s, t) == Len(s) <= Len(t) /\ SubSeq(t, 1, Len(s)) = s

\* the calls batch b makes when it is processed to the end
ExpectedBatchLog(b) ==
    <<Event("fetch", b)>>
    \o (IF mixup_fn THEN <<Event("mixup", b)>> ELSE <<>>)
    \o <<Event("forward", b), Event("zero_grad", b), EventArg("sched", b, epoch),
         Event("backward", b), Event("opt_step", b), Event("sync", b)>>
    \o (IF model_ema THEN <<Event("ema", b)>> ELSE <<>>)
    \o (IF summary_writer
          THEN <<EventArg("sink", b, b + epoch * BatchCount)>> ELSE <<>>)
    \o <<Event("meter_loss", b), EventArg("meter_lr", b, LrSchedule(epoch))>>

LogOf(b) == SelectSeq(log, LAMBDA e : e.j = b)

BadBatches ==
    {b \in 0..(BatchCount - 1) : data_loader[b + 1].loss.kind \in {"nan", "inf"}}
FirstBad == CHOOSE b \in BadBatches : \A c \in BadBatches : b <= c

AllFinite == BadBatches = {}

RECURSIVE SumLoss(_)
SumLoss(s) == IF s = <<>> THEN 0 ELSE Head(s).loss.val + SumLoss(Tail(s))
RECURSIVE SumSize(_)
SumSize(s) == IF s = <<>> THEN 0 ELSE Head(s).size + SumSize(Tail(s))
RECURSIVE SumLossTimesSize(_)
SumLossTimesSize(s) ==
    IF s = <<>> THEN 0
    ELSE Head(s).loss.val * Head(s).size + SumLossTimesSize(Tail(s))

\* C1: when batch f is the first whose loss is NaN or infinite, the run never
\* returns, nothing but the fetch and forward pass is ever done for batch f,
\* no later batch is touched, and once the process has exited (status 1) every
\* batch before f was processed to the end.
C1_NonFiniteLossStops ==
    /\ (pc = "exited") <=> (exit_status = 1)
    /\ pc = "exited" => ~AllFinite
    /\ ~AllFinite =>
        /\ pc # "done"
        /\ \A i \in 1..Len(log) :
              /\ log[i].j <= FirstBad
              /\ log[i].j = FirstBad => log[i].op \in {"fetch", "mixup", "forward"}
        /\ MeterOf(meters, "loss").count <= FirstBad
        /\ MeterOf(meters, "lr").count <= FirstBad
        /\ Len(scalars) <= FirstBad
        /\ ~ENABLED TrainNext => pc = "exited"
        /\ pc = "exited" =>
              /\ j = FirstBad
              /\ \A b \in 0..(FirstBad - 1) : LogOf(b) = ExpectedBatchLog(b)
              /\ MeterOf(meters, "loss").count = FirstBad
              /\ MeterOf(meters, "lr").count = FirstBad
              /\ Len(scalars) = (IF summary_writer THEN FirstBad ELSE 0)

C1_Witness ==
    /\ pc = "exited" /\ j >= 1 /\ loss_value = Inf
    /\ model_ema /\ summary_writer

C9_StepOrder ==
    /\ \A i \in 1..(Len(log) - 1) : log[i].j <= log[i + 1].j
    /\ \A i \in 1..Len(log) : log[i].j <= j
    /\ \A b \in 0..(j - 1) : LogOf(b) = ExpectedBatchLog(b)
    /\ j < BatchCount => IsPrefix(LogOf(j), ExpectedBatchLog(j))
    /\ pc = "done" => j = BatchCount

C9_Witness ==
    /\ pc = "done" /\ BatchCount >= 2 /\ model_ema /\ summary_writer /\ epoch >= 1

----------------------------------------------------------------------------
(* evaluate *)

\* Python values a caller can pass as topk: an int, or a tuple of values.
PyInt(k) == [kind |-> "int", val |-> k, items |-> <<>>]
PyTuple(s) == [kind |-> "tuple", val |-> 0, items |-> s]

Ks == {1, 5}

TopkArgs ==
    {PyInt(k) : k \in Ks}
    \cup {PyTuple(s) : s \in UNION {[1..n -> {PyInt(k) : k \in Ks}] : n \in 1..MaxTupleLen}}

\* line 91: isinstance(topk, tuple) and len(topk) > 1
TopkEnable(t) == t.kind = "tuple" /\ Len(t.items) > 1

\* lines 91-95: the tuple handed to accuracy()
TopkNormalized(t) == IF TopkEnable(t) THEN t ELSE PyTuple(<<t>>)

\* timm's accuracy(output, target, topk) takes max(topk) as an integer and
\* returns one value per entry; the value for entry k is written k here, so
\* that a meter's average tells which k it accumulated.
AccuracyAccepts(t) == \A i \in 1..Len(t.items) : t.items[i].kind = "int"
Accuracy(t) == [i \in 1..Len(t.items) |-> t.items[i].val]

\* lines 111-113 as if acc5 were recorded whatever topk_enable says
AccMeterUpdatesAlways(ms, a, enable, n) ==
    MeterUpdateN(MeterUpdateN(ms, "acc1", a[1], n), "acc5", a[Len(a)], n)
\* lines 111-113: acc1 always, acc5 when topk_enable, both weighted by batch size
AccMeterUpdates(ms, a, enable, n) ==
    IF enable
      THEN MeterUpdateN(MeterUpdateN(ms, "acc1", a[1], n), "acc5", a[2], n)
      ELSE MeterUpdateN(ms, "acc1", a[1], n)

ScalarRec(tag, value, step) == [tag |-> tag, value |-> value, step |-> step]

EvalInit ==
    /\ pc = "normalize"
    /\ data_loader \in SeqsUpTo(Batches(FiniteLosses), MaxBatches)
    /\ epoch \in {0, MaxEpoch}
    /\ summary_writer \in BOOLEAN
    /\ topk \in TopkArgs
    /\ model_ema = FALSE /\ mixup_fn = FALSE
    /\ j = 0
    /\ loss_value = NoValue
    /\ lr = 0
    /\ meters = NoMeters
    /\ scalars = <<>>
    /\ log = <<>>
    /\ exit_status = NoExit
    /\ return_dict = NoMeters
    /\ topk_norm = NoValue /\ topk_enable = FALSE /\ accs = <<>>
    /\ ToolsIdle

\* lines 85-97: fresh logger, eval mode, top-k normalisation
EvalNormalize ==
    /\ pc = "normalize"
    /\ topk_enable' = TopkEnable(topk)
    /\ topk_norm' = TopkNormalized(topk)
    /\ pc' = "fetch"
    /\ UNCHANGED <<toolVars, inputs, j, loss_value, lr, meters, scalars, log, exit_status,
                   return_dict, accs>>

\* lines 98-100: next batch, moved to the device
EvalFetch ==
    /\ pc = "fetch" /\ j < Len(data_loader)
    /\ pc' = "forward"
    /\ UNCHANGED <<toolVars, inputs, j, loss_value, lr, meters, scalars, log, exit_status,
                   return_dict, topk_norm, topk_enable, accs>>

\* lines 103-105: forward pass and loss
EvalForward ==
    /\ pc = "forward"
    /\ loss_value' = CurBatch.loss
    /\ pc' = "accuracy"
    /\ UNCHANGED <<toolVars, inputs, j, lr, meters, scalars, log, exit_status, return_dict,
                   topk_norm, topk_enable, accs>>

\* line 107: accs = accuracy(output, target, topk=topk)
EvalAccuracy ==
    /\ pc = "accuracy"
    /\ IF AccuracyAccepts(topk_norm)
         THEN accs' = Accuracy(topk_norm) /\ pc' = "update"
         ELSE accs' = accs /\ pc' = "raised"
    /\ UNCHANGED <<toolVars, inputs, j, loss_value, lr, meters, scalars, log, exit_status,
                   return_dict, topk_norm, topk_enable>>

\* lines 109-113: loss with the default weight, accuracies weighted by batch size
EvalUpdate ==
    /\ pc = "update"
    /\ meters' = AccMeterUpdates(MetricLoggerUpdate(meters, "loss", loss_value.val),
                                 accs, topk_enable, CurBatch.size)
    /\ pc' = "sink"
    /\ UNCHANGED <<toolVars, inputs, j, loss_value, lr, scalars, log, exit_status,
                   return_dict, topk_norm, topk_enable, accs>>

\* lines 115-122: the sink's records for this batch, then j += 1
EvalSink ==
    /\ pc = "sink"
    /\ scalars' =
         IF summary_writer
           THEN LET step == j + epoch * Len(data_loader) IN
                scalars
                \o <<ScalarRec("val/loss", loss_value, step),
                     ScalarRec("val/acc1", Finite(accs[1]), step)>>
                \o (IF topk_enable
                      THEN <<ScalarRec("val/acc5", Finite(accs[2]), step)>>
                      ELSE <<>>)
           ELSE scalars
    /\ j' = j + 1
    /\ pc' = "fetch"
    /\ UNCHANGED <<toolVars, inputs, loss_value, lr, meters, log, exit_status, return_dict,
                   topk_norm, topk_enable, accs>>

\* the meters the summary line of lines 126-131 reads
SummaryMeters == IF topk_enable THEN {"acc1", "acc5", "loss"} ELSE {"acc1", "loss"}

\* lines 124-134: summary line, then every meter's global average
EvalReturn ==
    /\ pc = "fetch" /\ j = Len(data_loader)
    /\ return_dict' = [k \in DOMAIN meters |-> GlobalAvg(meters[k])]
    /\ pc' = "done"
    /\ UNCHANGED <<toolVars, inputs, j, loss_value, lr, meters, scalars, log, exit_status,
                   topk_norm, topk_enable, accs>>

\* lines 126-131 read metric_logger.acc1 / .acc5 / .loss; the logger's lookup of
\* a meter that no batch created is outside this source, so besides returning
\* the run may end in the lookup's error.
EvalSummaryRaises ==
    /\ pc = "fetch" /\ j = Len(data_loader)
    /\ ~(SummaryMeters \subseteq DOMAIN meters)
    /\ pc' = "raised"
    /\ UNCHANGED <<toolVars, inputs, j, loss_value, lr, meters, scalars, log, exit_status,
                   return_dict, topk_norm, topk_enable, accs>>

EvalNext ==
    \/ EvalNormalize \/ EvalFetch \/ EvalForward \/ EvalAccuracy \/ EvalUpdate
    \/ EvalSink \/ EvalReturn \/ EvalSummaryRaises

SpecEval == EvalInit /\ [][EvalNext]_vars

----------------------------------------------------------------------------
(* Properties of evaluate *)

Topk15 == PyTuple(<<PyInt(1), PyInt(5)>>)

\* C4: with topk=(1,5) and at least one batch the run returns a mapping with
\* exactly "loss", "acc1" and "acc5", acc1 and acc5 being the batch-size
\* weighted averages of the top-1 and top-5 values; with topk=1 the mapping
\* has "acc1" and "loss" and no "acc5", and the sink never gets 'val/acc5'.
C4_EvalKeys ==
    /\ (topk = Topk15 /\ BatchCount > 0) =>
          /\ pc # "raised"
          /\ ~ENABLED EvalNext => pc = "done"
          /\ pc = "done" =>
                /\ DOMAIN return_dict = {"loss", "acc1", "acc5"}
                /\ return_dict["acc1"] = <<1 * SumSize(data_loader), SumSize(data_loader)>>
                /\ return_dict["acc5"] = <<5 * SumSize(data_loader), SumSize(data_loader)>>
                /\ return_dict["loss"] = <<SumLoss(data_loader), BatchCount>>
    /\ topk = PyInt(1) =>
          /\ \A i \in 1..Len(scalars) : scalars[i].tag # "val/acc5"
          /\ "acc5" \notin DOMAIN meters
          /\ BatchCount > 0 =>
                /\ pc # "raised"
                /\ ~ENABLED EvalNext => pc = "done"
          /\ pc = "done" =>
                /\ "acc5" \notin DOMAIN return_dict
                /\ BatchCount > 0 =>
                      /\ DOMAIN return_dict = {"loss", "acc1"}
                      /\ return_dict["acc1"] =
                            <<1 * SumSize(data_loader), SumSize(data_loader)>>

C4_WitnessBoth ==
    /\ pc = "done" /\ topk = Topk15 /\ BatchCount = 2 /\ summary_writer
    /\ "acc5" \in DOMAIN return_dict

C4_WitnessSingle ==
    /\ pc = "done" /\ topk = PyInt(1) /\ BatchCount = 2 /\ summary_writer
    /\ Len(scalars) = 4

\* C10 as stated: for an int k, a one-element tuple (k,) or a longer tuple,
\* the tuple handed to accuracy is a flat tuple of ints: the longer tuple
\* unchanged with multi-accuracy on, otherwise the one-element tuple holding
\* k with multi-accuracy off.
C10_TopkNormalizedFlat ==
    pc # "normalize" =>
        /\ topk_norm.kind = "tuple"
        /\ \A i \in 1..Len(topk_norm.items) : topk_norm.items[i].kind = "int"
        /\ (topk.kind = "tuple" /\ Len(topk.items) > 1) =>
              topk_norm = topk /\ topk_enable
        /\ topk.kind = "int" =>
              topk_norm = PyTuple(<<PyInt(topk.val)>>) /\ ~topk_enable
        /\ (topk.kind = "tuple" /\ Len(topk.items) = 1) =>
              topk_norm = PyTuple(<<PyInt(topk.items[1].val)>>) /\ ~topk_enable

----------------------------------------------------------------------------
(* Strings are sequences of one-character strings. *)

\* sub in s
Contains(s, sub) ==
    \E q \in 1..(Len(s) - Len(sub) + 1) : SubSeq(s, q, q + Len(sub) - 1) = sub

\* s.replace(old, new): every occurrence, leftmost first, not overlapping
RECURSIVE Replace(_, _, _)
Replace(s, old, new) ==
    IF Len(s) < Len(old) THEN s
    ELSE IF SubSeq(s, 1, Len(old)) = old
           THEN new \o Replace(SubSeq(s, Len(old) + 1, Len(s)), old, new)
           ELSE <<Head(s)>> \o Replace(Tail(s), old, new)

RECURSIVE Concat(_)
Concat(ss) == IF ss = <<>> THEN <<>> ELSE Head(ss) \o Concat(Tail(ss))

\* every ordering of a finite set, as os.listdir may return it
Orderings(S) ==
    {f \in [1..Cardinality(S) -> S] : \A a, b \in DOMAIN f : a # b => f[a] # f[b]}

SubsetsUpTo(S, n) == {T \in SUBSET S : Cardinality(T) <= n}

----------------------------------------------------------------------------
(* img_trans *)

PNG == <<"p", "n", "g">>
JPG == <<"j", "p", "g">>
DOTPNG == <<".", "p", "n", "g">>

\* file names a source directory may hold
ImgNames ==
    { <<"a", ".", "p", "n", "g">>,
      <<"b", ".", "p", "n", "g">>,
      <<"p", "n", "g", ".", "p", "n", "g">>,
      <<"p", "n", "g", "s", ".", "t", "x", "t">>,
      <<"a", ".", "j", "p", "g">> }

\* "ok": Image.open succeeds; "truncated": it raises OSError and succeeds on the
\* bytes with FF D9 appended; "corrupt": both attempts raise
DecodeOutcomes == {"ok", "truncated", "corrupt"}

\* lines 16 and 32: name.replace('png', 'jpg')
DestName(name) == Replace(name, PNG, JPG)

\* line 33 as if it tested for the '.png' extension
SkipEntryDotPng(name, files) == ~Contains(name, DOTPNG) \/ DestName(name) \in files
\* line 33: 'png' not in img_src or os.path.exists(dis_img)
SkipEntry(name, files) == ~Contains(name, PNG) \/ DestName(name) \in files

NoRuns == [r \in 1..MaxRuns |-> {}]

ImgInit ==
    /\ pc = "start"
    /\ src_is_file \in BOOLEAN
    /\ IF src_is_file
         THEN /\ src_name \in ImgNames
              /\ imgs_src = <<>>
              /\ decodes \in [{src_name} -> DecodeOutcomes]
              /\ dst_exists \in BOOLEAN
              /\ dst_files \in (IF dst_exists THEN SUBSET {DestName(src_name)} ELSE {{}})
         ELSE /\ src_name = <<>>
              /\ \E S \in SubsetsUpTo(ImgNames, MaxEntries) :
                    /\ imgs_src \in Orderings(S)
                    /\ decodes \in [S -> DecodeOutcomes]
                    /\ dst_exists \in BOOLEAN
                    /\ dst_files \in (IF dst_exists
                                        THEN SUBSET {DestName(n) : n \in S}
                                        ELSE {{}})
    /\ run = 1
    /\ handled = NoRuns /\ repaired = {} /\ written = NoRuns
    /\ pos = 0
    /\ img_name_list = <<>> /\ txt_content = <<>>
    /\ label_file = <<>> /\ label_file0 = <<>>
    /\ EngineIdle

\* line 15, and for a directory lines 28-30: mkdir dst if absent, list src
ImgStart ==
    /\ pc = "start"
    /\ IF src_is_file
         THEN pc' = "file" /\ UNCHANGED dst_exists
         ELSE pc' = "loop" /\ dst_exists' = TRUE
    /\ pos' = 0
    /\ UNCHANGED <<src_is_file, src_name, imgs_src, decodes, dst_files, run,
                   handled, repaired, written, labelVars, engineVars>>

\* lines 16-26: decode (repairing once), resize, save as dst/<DestName>
ImgFile ==
    /\ pc = "file"
    /\ IF decodes[src_name] = "corrupt"
         THEN /\ pc' = "raised"
              /\ UNCHANGED <<handled, repaired, written, dst_files>>
         ELSE /\ handled' = [handled EXCEPT ![run] = @ \cup {src_name}]
              /\ repaired' = IF decodes[src_name] = "truncated"
                               THEN repaired \cup {src_name} ELSE repaired
              /\ IF dst_exists
                   THEN /\ dst_files' = dst_files \cup {DestName(src_name)}
                        /\ written' = [written EXCEPT ![run] = @ \cup {DestName(src_name)}]
                        /\ pc' = "done"
                   ELSE /\ pc' = "raised"
                        /\ UNCHANGED <<dst_files, written>>
    /\ UNCHANGED <<src_is_file, src_name, imgs_src, decodes, dst_exists, run, pos,
                   labelVars, engineVars>>

\* lines 31-34: an entry without 'png' or with its destination present is passed over
ImgDirSkip ==
    /\ pc = "loop" /\ pos < Len(imgs_src)
    /\ SkipEntry(imgs_src[pos + 1], dst_files)
    /\ pos' = pos + 1
    /\ UNCHANGED <<pc, imgVars, labelVars, engineVars>>

\* lines 36-45: decode (repairing once) and resize; the save is commented out
ImgDirConvert ==
    /\ pc = "loop" /\ pos < Len(imgs_src)
    /\ ~SkipEntry(imgs_src[pos + 1], dst_files)
    /\ LET name == imgs_src[pos + 1] IN
         IF decodes[name] = "corrupt"
           THEN /\ pc' = "raised"
                /\ UNCHANGED <<handled, repaired, pos>>
           ELSE /\ handled' = [handled EXCEPT ![run] = @ \cup {name}]
                /\ repaired' = IF decodes[name] = "truncated"
                                 THEN repaired \cup {name} ELSE repaired
                /\ pos' = pos + 1
                /\ UNCHANGED pc
    /\ UNCHANGED <<src_is_file, src_name, imgs_src, decodes, dst_exists, dst_files,
                   run, written, labelVars, engineVars>>

\* the for loop of line 31 is exhausted
ImgDirDone ==
    /\ pc = "loop" /\ pos = Len(imgs_src)
    /\ pc' = "done"
    /\ UNCHANGED <<pos, imgVars, labelVars, engineVars>>

\* img_trans is called again with the same src and dst
ImgRerun ==
    /\ pc = "done" /\ run < MaxRuns
    /\ run' = run + 1
    /\ pc' = "start"
    /\ pos' = 0
    /\ UNCHANGED <<src_is_file, src_name, imgs_src, decodes, dst_exists, dst_files,
                   handled, repaired, written, labelVars, engineVars>>

ImgNext ==
    \/ ImgStart \/ ImgFile \/ ImgDirSkip \/ ImgDirConvert \/ ImgDirDone \/ ImgRerun

SpecImg == ImgInit /\ [][ImgNext]_vars

----------------------------------------------------------------------------
(* gen_txt_dc *)

DOG == <<"d", "o", "g">>
CAT == <<"c", "a", "t">>

\* file names the image directory may hold
LabelNames ==
    { <<"d", "o", "g", "1", ".", "p", "n", "g">>,
      <<"c", "a", "t", "1", ".", "p", "n", "g">>,
      <<"c", "a", "t", "d", "o", "g">>,
      <<"d", "o", "g", "2">>,
      <<"b", "i", "r", "d">> }

AbsentFile == [exists |-> FALSE, content |-> <<>>]
OldFile == [exists |-> TRUE, content |-> <<"o", "l", "d", "\n">>]

\* lines 53-58 as if 'cat' were tested first
ClassifyCatFirst(name) ==
    IF Contains(name, CAT) THEN "0"
    ELSE IF Contains(name, DOG) THEN "1"
    ELSE "unrecognized"
\* lines 53-58 as if the else branch labelled the name a cat
ClassifyDefaultCat(name) ==
    IF Contains(name, DOG) THEN "1" ELSE "0"
\* lines 53-58: 'dog' is tested first, then 'cat', else the ValueError
Classify(name) ==
    IF Contains(name, DOG) THEN "1"
    ELSE IF Contains(name, CAT) THEN "0"
    ELSE "unrecognized"

\* lines 54 and 56: f"{img_n},{label}\n"
LabelLine(name, label) == name \o <<",", label, "\n">>

LabelInit ==
    /\ pc = "start"
    /\ \E S \in SubsetsUpTo(LabelNames, MaxNames) : img_name_list \in Orderings(S)
    /\ label_file0 \in {AbsentFile, OldFile}
    /\ label_file = label_file0
    /\ txt_content = <<>>
    /\ pos = 0
    /\ src_is_file = FALSE /\ src_name = <<>> /\ imgs_src = <<>>
    /\ decodes = <<>> /\ dst_exists = FALSE /\ dst_files = {}
    /\ run = 0 /\ handled = <<>> /\ repaired = {} /\ written = <<>>
    /\ EngineIdle

\* lines 50-51: list the directory, start with no lines
LabelStart ==
    /\ pc = "start"
    /\ txt_content' = <<>>
    /\ pos' = 0
    /\ pc' = "loop"
    /\ UNCHANGED <<img_name_list, label_file, label_file0, imgVars, engineVars>>

\* lines 52-56: a recognised name adds its line
LabelAppend ==
    /\ pc = "loop" /\ pos < Len(img_name_list)
    /\ Classify(img_name_list[pos + 1]) # "unrecognized"
    /\ txt_content' = Append(txt_content,
          LabelLine(img_name_list[pos + 1], Classify(img_name_list[pos + 1])))
    /\ pos' = pos + 1
    /\ UNCHANGED <<pc, img_name_list, label_file, label_file0, imgVars, engineVars>>

\* lines 57-58: any other name raises ValueError
LabelRaise ==
    /\ pc = "loop" /\ pos < Len(img_name_list)
    /\ Classify(img_name_list[pos + 1]) = "unrecognized"
    /\ pc' = "raised"
    /\ UNCHANGED <<pos, labelVars, imgVars, engineVars>>

\* lines 60-62: the collected lines replace the file's content
LabelWrite ==
    /\ pc = "loop" /\ pos = Len(img_name_list)
    /\ label_file' = [exists |-> TRUE, content |-> Concat(txt_content)]
    /\ pc' = "done"
    /\ UNCHANGED <<pos, img_name_list, txt_content, label_file0, imgVars, engineVars>>

LabelNext == LabelStart \/ LabelAppend \/ LabelRaise \/ LabelWrite

SpecLabel == LabelInit /\ [][LabelNext]_vars

----------------------------------------------------------------------------
(* Properties of img_trans *)

\* sub occurs in s starting at position q
OccursAt(s, sub, q) ==
    q >= 1 /\ q + Len(sub) - 1 <= Len(s) /\ SubSeq(s, q, q + Len(sub) - 1) = sub
HasSub(s, sub) == \E q \in 1..Len(s) : OccursAt(s, sub, q)
\* position p of s lies inside an occurrence of sub
Inside(s, sub, p) == \E q \in (p - Len(sub) + 1)..p : OccursAt(s, sub, q)

Entries == {imgs_src[k] : k \in 1..Len(imgs_src)}
DirMode == ~src_is_file /\ run >= 1

\* entries of the listing the call number r has visited so far
Visited(r) ==
    IF r < run THEN Entries
    ELSE IF pc = "start" THEN {}
    ELSE {imgs_src[k] : k \in 1..pos}

\* C3 as stated: a first directory run over N entries, M of them with '.png'
\* in the name and none with its destination present, saves exactly M files,
\* one per such entry, named with '.png' replaced by '.jpg'.
C3_DirectoryWritesM ==
    (DirMode /\ pc = "done" /\ run = 1
       /\ \A n \in Entries : Replace(n, DOTPNG, <<".">> \o JPG) \notin dst_files) =>
        LET pngs == {n \in Entries : HasSub(n, DOTPNG)} IN
        /\ written[1] = {Replace(n, DOTPNG, <<".">> \o JPG) : n \in pngs}
        /\ Cardinality(written[1]) = Cardinality(pngs)

\* C6 as stated: a second directory run over the same source and destination
\* saves nothing, every entry the first run handled being passed over by the
\* second because its destination file exists.
C6_SecondRunSkips ==
    (DirMode /\ pc = "done" /\ run = 2) =>
        /\ written[2] = {}
        /\ \A n \in handled[1] : n \notin handled[2] /\ DestName(n) \in dst_files

\* C7 as stated: a directory entry is decoded and resized iff its name
\* contains '.png' and its destination is absent, entries without '.png' are
\* passed over, and the destination name differs from the name only inside
\* occurrences of '.png'.
C7_FilterDotPng ==
    DirMode =>
        /\ \A r \in 1..run : \A n \in Visited(r) :
              n \in handled[r] <=> (HasSub(n, DOTPNG) /\ DestName(n) \notin dst_files)
        /\ \A n \in Visited(run) :
              /\ Len(DestName(n)) = Len(n)
              /\ \A p \in 1..Len(n) :
                    DestName(n)[p] # n[p] => Inside(n, DOTPNG, p)

\* C7 amended: a directory entry is decoded and resized iff its name contains
\* 'png' and its destination (the name with every 'png' replaced by 'jpg') is
\* absent; entries without 'png' are passed over; the destination name has
\* 'jpg' at every occurrence of 'png' and equals the name everywhere else.
\* The file branch names its output the same way.
C7_FilterPng ==
    /\ DirMode =>
        /\ \A r \in 1..run :
              /\ handled[r] \subseteq Visited(r)
              /\ \A n \in Visited(r) :
                    n \in handled[r] <=> (HasSub(n, PNG) /\ DestName(n) \notin dst_files)
        /\ \A n \in Visited(run) :
              /\ Len(DestName(n)) = Len(n)
              /\ \A p \in 1..Len(n) :
                    /\ OccursAt(n, PNG, p) => SubSeq(DestName(n), p, p + 2) = JPG
                    /\ ~Inside(n, PNG, p) => DestName(n)[p] = n[p]
    /\ (src_is_file /\ pc = "done") =>
          /\ written[1] = {DestName(src_name)}
          /\ Len(DestName(src_name)) = Len(src_name)
          /\ \A p \in 1..Len(src_name) :
                /\ OccursAt(src_name, PNG, p) => SubSeq(DestName(src_name), p, p + 2) = JPG
                /\ ~Inside(src_name, PNG, p) => DestName(src_name)[p] = src_name[p]

C7_Witness ==
    /\ DirMode /\ pc = "done" /\ Len(imgs_src) = 2
    /\ \E n \in handled[1] : ~HasSub(n, DOTPNG)
    /\ \E n \in Entries : HasSub(n, PNG) /\ DestName(n) \in dst_files

----------------------------------------------------------------------------
(* Properties of gen_txt_dc *)

LabelCount == Len(img_name_list)
Unrecognized ==
    {k \in 1..LabelCount :
        ~Contains(img_name_list[k], DOG) /\ ~Contains(img_name_list[k], CAT)}
FirstUnrecognized == CHOOSE k \in Unrecognized : \A m \in Unrecognized : k <= m

\* the lines of a text, each without its closing newline
RECURSIVE SplitLines(_, _)
SplitLines(text, cur) ==
    IF text = <<>> THEN (IF cur = <<>> THEN <<>> ELSE <<cur>>)
    ELSE IF Head(text) = "\n" THEN <<cur>> \o SplitLines(Tail(text), <<>>)
    ELSE SplitLines(Tail(text), Append(cur, Head(text)))

FileLines == SplitLines(label_file.content, <<>>)

\* C5: when some listed name has neither "dog" nor "cat", the call never
\* completes, it ends raising at the first such entry, and the label file
\* stays exactly as it was before the call, however many names came before.
C5_UnrecognizedAllOrNothing ==
    /\ pc = "raised" => Unrecognized # {}
    /\ Unrecognized # {} =>
          /\ label_file = label_file0
          /\ pc # "done"
          /\ pos < FirstUnrecognized
          /\ ~ENABLED LabelNext => (pc = "raised" /\ pos = FirstUnrecognized - 1)

C5_Witness ==
    /\ pc = "raised" /\ pos >= 2 /\ label_file0 = OldFile

\* C8 as stated: with every name recognised the file holds one line per name,
\* in listing order, "<name>,1" for names containing "dog" and "<name>,0" for
\* names containing "cat".
C8_LabelLines ==
    (pc = "done") =>
        /\ label_file.exists
        /\ Len(FileLines) = LabelCount
        /\ \A k \in 1..LabelCount :
              /\ Contains(img_name_list[k], DOG) =>
                    FileLines[k] = img_name_list[k] \o <<",", "1">>
              /\ Contains(img_name_list[k], CAT) =>
                    FileLines[k] = img_name_list[k] \o <<",", "0">>

\* C8 amended: with every name recognised the file holds one line per name,
\* in listing order, "<name>,1" for names containing "dog" and "<name>,0" for
\* names containing "cat" but not "dog"; nothing of the old content remains.
C8_LabelLinesDogFirst ==
    /\ pc = "done" =>
        /\ Unrecognized = {}
        /\ label_file.exists
        /\ Len(FileLines) = LabelCount
        /\ \A k \in 1..LabelCount :
              /\ Contains(img_name_list[k], DOG) =>
                    FileLines[k] = img_name_list[k] \o <<",", "1">>
              /\ (Contains(img_name_list[k], CAT) /\ ~Contains(img_name_list[k], DOG)) =>
                    FileLines[k] = img_name_list[k] \o <<",", "0">>
    /\ (Unrecognized = {} /\ ~ENABLED LabelNext) => pc = "done"

C8_Witness ==
    /\ pc = "done"
    /\ img_name_list = << <<"d", "o", "g", "1", ".", "p", "n", "g">>,
                          <<"c", "a", "t", "1", ".", "p", "n", "g">>,
                          <<"c", "a", "t", "d", "o", "g">> >>
    /\ label_file0 = OldFile

====
